---- MODULE Spec2Model ----
(***************************************************************************)
(* Magic-UV, flip/rotate UV.                                               *)
(*                                                                         *)
(* A model of src/magic_uv/op/flip_rotate_uv.py (the face-info extractor   *)
(* _get_src_face_info, the transfer engine _paste_uv and the operator      *)
(* MUV_OT_FlipRotateUV.execute) and of the two class registries of         *)
(* src/magic_uv/utils.                                                     *)
(*                                                                         *)
(* A mesh (bmesh) is a record                                              *)
(*    has_uv : whether bm.loops.layers.uv holds a layer                    *)
(*    faces  : the sequence bm.faces; a face is [select, loops] and a loop *)
(*             is [uv, pin_uv, edge] (edge: the id of the edge l.edge)     *)
(*    seam   : edge id -> the edge's seam flag (one flag per edge, shared   *)
(*             by every loop whose l.edge is that edge)                    *)
(* Python sequences are 0-based: position p of a Python list is element    *)
(* p + 1 of the sequence here, and face.index is kept 0-based.            *)
(* execute passes exactly one UV layer, so a face-info collection is the   *)
(* list of records of that one layer.                                      *)
(***************************************************************************)
EXTENDS Integers, Sequences, FiniteSets

VARIABLES
    objs,             \* the editable objects' meshes, in iteration order
    src_info,         \* a captured face-info list ("None" before any capture)
    pre,              \* objs as they were when the last call started
    call,             \* the last call of _paste_uv / execute: inputs and outcome
    bl_class_list,    \* BlClassRegistry.class_list
    prop_class_list,  \* PropertyClassRegistry.class_list
    regcall,          \* the last registry call and whether it raised
    rec,              \* a face record under repeated flip/rotate transforms
    rec0,             \* that record as first captured
    applied           \* the <<flip, rotate>> transforms applied to rec so far

vars == <<objs, src_info, pre, call, bl_class_list, prop_class_list, regcall,
          rec, rec0, applied>>

----------------------------------------------------------------------------
(* Bounds                                                                  *)

\* rotate counts tried: 0..MaxRotate (the operator's property allows 0..30)
MaxRotate == 5
\* at most this many edges carry a seam in an initial mesh of the transfer runs
MaxSeams == 1
\* at most this many editable objects in one invocation of the operator
MaxObjs == 2
\* loop counts 1..MaxLoops of the face records of the transform runs
MaxLoops == 4
\* at most this many transforms are applied in a row to one face record
MaxTransforms == 2

----------------------------------------------------------------------------
(* Meshes                                                                  *)

\* A shape gives, per face, the edge ids of its loops in loop order.  Faces
\* that list the same edge id share that edge.
ShapeTwoTris == << <<1, 2, 3>>, <<3, 4, 5>> >>
ShapeTriQuad == << <<1, 2, 3>>, <<3, 4, 5, 6>> >>
ShapeChain == << <<1, 2, 3>>, <<3, 4, 5>>, <<5, 6, 7, 8>> >>

EdgesOf(shape) ==
    UNION {{shape[f][j] : j \in 1..Len(shape[f])} : f \in 1..Len(shape)}

\* The mesh of a shape: loop j of face f has the UV (an id standing for a 2D
\* coordinate) 10 * f + j, only the first loop of a face is pinned, the faces
\* in sel are selected and the edges in seams carry a seam.
MkMesh(shape, sel, seams, has_uv) ==
    [has_uv |-> has_uv,
     faces  |-> [f \in 1..Len(shape) |->
                   [select |-> f \in sel,
                    loops  |-> [j \in 1..Len(shape[f]) |->
                                  [uv     |-> 10 * f + j,
                                   pin_uv |-> (j = 1),
                                   edge   |-> shape[f][j]]]]],
     seam   |-> [e \in EdgesOf(shape) |-> e \in seams]]

FaceIds(bm) == 1..Len(bm.faces)

SetSelect(bm, sel) ==
    [bm EXCEPT !.faces = [f \in FaceIds(bm) |->
                            [bm.faces[f] EXCEPT !.select = (f \in sel)]]]

----------------------------------------------------------------------------
(* _get_uv_layer and _get_src_face_info                                    *)

None == "None"

\* _get_uv_layer: None when the mesh has no UV layer
_get_uv_layer(bm) == IF ~bm.has_uv THEN None ELSE "uv_layer"

FaceInfo(bm, f) ==
    [index   |-> f - 1,
     uvs     |-> [j \in 1..Len(bm.faces[f].loops) |-> bm.faces[f].loops[j].uv],
     pin_uvs |-> [j \in 1..Len(bm.faces[f].loops) |-> bm.faces[f].loops[j].pin_uv],
     seams   |-> [j \in 1..Len(bm.faces[f].loops) |->
                    bm.seam[bm.faces[f].loops[j].edge]]]

RECURSIVE CollectFaceInfo(_, _, _)
\* the loop over bm.faces from face f on: one record per included face
CollectFaceInfo(bm, only_select, f) ==
    IF f > Len(bm.faces) THEN <<>>
    ELSE (IF ~only_select \/ bm.faces[f].select
          THEN <<FaceInfo(bm, f)>> ELSE <<>>)
         \o CollectFaceInfo(bm, only_select, f + 1)

\* _get_src_face_info taking every face, selected or not
_get_src_face_info_AllFaces(bm, only_select) ==
    LET face_info == CollectFaceInfo(bm, FALSE, 1)
    IN  IF face_info = <<>> THEN None ELSE face_info

\* _get_src_face_info for the single layer: None when no face was included
_get_src_face_info(bm, only_select) ==
    LET face_info == CollectFaceInfo(bm, only_select, 1)
    IN  IF face_info = <<>> THEN None ELSE face_info

----------------------------------------------------------------------------
(* _paste_uv                                                               *)

Reverse(s) == [i \in 1..Len(s) |-> s[Len(s) + 1 - i]]

\* one pass of the rotate loop on one list: x = s.pop(); s.insert(0, x)
PopInsert(s) == <<s[Len(s)]>> \o SubSeq(s, 1, Len(s) - 1)

RECURSIVE RotateLists(_, _)
\* for _ in range(rotate): pop the last of each list and insert it at 0.
\* list.pop() on an empty list raises IndexError.
RotateLists(fr, rotate) ==
    IF rotate <= 0 THEN fr
    ELSE IF Len(fr.uvs) = 0 \/ Len(fr.pin_uvs) = 0 \/ Len(fr.seams) = 0
         THEN [fr EXCEPT !.raised = TRUE]
         ELSE RotateLists([uvs     |-> PopInsert(fr.uvs),
                           pin_uvs |-> PopInsert(fr.pin_uvs),
                           seams   |-> PopInsert(fr.seams),
                           raised  |-> FALSE], rotate - 1)

\* FlipRotate with the two steps exchanged: rotated first, then flipped
FlipRotate_RotateThenFlip(sinfo, flip, rotate) ==
    LET Flip(fr) ==
          IF flip /\ ~fr.raised
          THEN [fr EXCEPT !.uvs = Reverse(fr.uvs),
                          !.pin_uvs = Reverse(fr.pin_uvs),
                          !.seams = Reverse(fr.seams)]
          ELSE fr
    IN  Flip(RotateLists([uvs |-> sinfo.uvs, pin_uvs |-> sinfo.pin_uvs,
                          seams |-> sinfo.seams, raised |-> FALSE], rotate))

\* FlipRotate with a rotate loop that pops without inserting again until the
\* lists are used up: a rotate count above the loop count raises
FlipRotate_Exhausting(sinfo, flip, rotate) ==
    LET copied == [uvs |-> sinfo.uvs, pin_uvs |-> sinfo.pin_uvs,
                   seams |-> sinfo.seams, raised |-> FALSE]
        flipped == IF flip
                   THEN [copied EXCEPT !.uvs = Reverse(copied.uvs),
                                       !.pin_uvs = Reverse(copied.pin_uvs),
                                       !.seams = Reverse(copied.seams)]
                   ELSE copied
    IN  IF rotate > Len(sinfo.uvs)
        THEN [flipped EXCEPT !.raised = TRUE]
        ELSE RotateLists(flipped, rotate)

\* FlipRotate with a rotate loop that runs once more: range(rotate + 1)
FlipRotate_OneMore(sinfo, flip, rotate) ==
    LET copied == [uvs |-> sinfo.uvs, pin_uvs |-> sinfo.pin_uvs,
                   seams |-> sinfo.seams, raised |-> FALSE]
        flipped == IF flip
                   THEN [copied EXCEPT !.uvs = Reverse(copied.uvs),
                                       !.pin_uvs = Reverse(copied.pin_uvs),
                                       !.seams = Reverse(copied.seams)]
                   ELSE copied
    IN  RotateLists(flipped, rotate + 1)

\* the working copies suvs_fr, spuvs_fr, ss_fr: copied, flipped, then rotated
FlipRotate(sinfo, flip, rotate) ==
    LET copied == [uvs |-> sinfo.uvs, pin_uvs |-> sinfo.pin_uvs,
                   seams |-> sinfo.seams, raised |-> FALSE]
        flipped == IF flip
                   THEN [copied EXCEPT !.uvs = Reverse(copied.uvs),
                                       !.pin_uvs = Reverse(copied.pin_uvs),
                                       !.seams = Reverse(copied.seams)]
                   ELSE copied
    IN  RotateLists(flipped, rotate)

Min(a, b) == IF a <= b THEN a ELSE b

RECURSIVE WriteLoops(_, _, _, _, _)
\* the paste loop over zip(face.loops, suvs_fr, spuvs_fr, ss_fr) from loop j on
WriteLoops(bm, f, fr, copy_seams, j) ==
    IF j > Min(Len(bm.faces[f].loops),
               Min(Len(fr.uvs), Min(Len(fr.pin_uvs), Len(fr.seams))))
    THEN bm
    ELSE LET e == bm.faces[f].loops[j].edge
             written == [bm EXCEPT !.faces[f].loops[j].uv = fr.uvs[j],
                                   !.faces[f].loops[j].pin_uv = fr.pin_uvs[j]]
             seamed == IF copy_seams
                       THEN [written EXCEPT !.seam[e] = fr.seams[j]]
                       ELSE written
         IN  WriteLoops(seamed, f, fr, copy_seams, j + 1)

\* SrcIndex with N_N pairing each destination with the next source record
SrcIndex_Shifted(strategy, idx, nsrc) ==
    IF strategy = "N_M" THEN idx % nsrc ELSE (idx + 1) % nsrc

\* the 0-based position in src_faces of the record paired with destination idx
SrcIndex(strategy, idx, nsrc) ==
    IF strategy = "N_M" THEN idx % nsrc ELSE idx

\* PasteOne with the size check after the paste loop instead of before it
PasteOne_WriteThenCheck(bm, sinfo, dinfo, flip, rotate, copy_seams) ==
    LET Write(fr) ==
          IF fr.raised
          THEN [bm |-> bm, ret |-> 0, raised |-> TRUE]
          ELSE [bm |-> WriteLoops(bm, dinfo.index + 1, fr, copy_seams, 1),
                ret |-> IF Len(sinfo.uvs) # Len(dinfo.uvs) THEN -1 ELSE 0,
                raised |-> FALSE]
    IN  Write(FlipRotate(sinfo, flip, rotate))

\* PasteOne writing the seams whatever copy_seams says
PasteOne_AlwaysSeams(bm, sinfo, dinfo, flip, rotate, copy_seams) ==
    LET Write(fr) ==
          IF fr.raised
          THEN [bm |-> bm, ret |-> 0, raised |-> TRUE]
          ELSE [bm |-> WriteLoops(bm, dinfo.index + 1, fr, TRUE, 1),
                ret |-> 0, raised |-> FALSE]
    IN  IF Len(sinfo.uvs) # Len(dinfo.uvs)
        THEN [bm |-> bm, ret |-> -1, raised |-> FALSE]
        ELSE Write(FlipRotate(sinfo, flip, rotate))

\* one destination face against its chosen source record: the size check, the
\* working copies, flip, rotate and the paste loop
PasteOne(bm, sinfo, dinfo, flip, rotate, copy_seams) ==
    LET Write(fr) ==
          IF fr.raised
          THEN [bm |-> bm, ret |-> 0, raised |-> TRUE]
          ELSE [bm |-> WriteLoops(bm, dinfo.index + 1, fr, copy_seams, 1),
                ret |-> 0, raised |-> FALSE]
    IN  IF Len(sinfo.uvs) # Len(dinfo.uvs)
        THEN [bm |-> bm, ret |-> -1, raised |-> FALSE]
        ELSE Write(FlipRotate(sinfo, flip, rotate))

RECURSIVE PasteFaces(_, _, _, _, _, _, _, _)
\* the loop "for idx, dinfo in enumerate(dest_faces)" from idx on.  The result
\* gives the mesh, the return value, whether an exception left the function
\* (src_faces[idx] out of range, or a pop from an empty list) and the number
\* of destination faces written before the function was left.
PasteFaces(bm, src_faces, dest_faces, strategy, flip, rotate, copy_seams, idx) ==
    IF idx >= Len(dest_faces)
    THEN [bm |-> bm, ret |-> 0, raised |-> FALSE, done |-> idx]
    ELSE LET Then(one) ==
               IF one.ret # 0 \/ one.raised
               THEN [bm |-> one.bm, ret |-> one.ret, raised |-> one.raised,
                     done |-> idx]
               ELSE PasteFaces(one.bm, src_faces, dest_faces, strategy, flip,
                               rotate, copy_seams, idx + 1)
             Pair(sidx) ==
               IF sidx >= Len(src_faces)
               THEN [bm |-> bm, ret |-> 0, raised |-> TRUE, done |-> idx]
               ELSE Then(PasteOne(bm, src_faces[sidx + 1], dest_faces[idx + 1],
                                  flip, rotate, copy_seams))
         IN  Pair(SrcIndex(strategy, idx, Len(src_faces)))

_paste_uv(bm, src_faces, dest_faces, strategy, flip, rotate, copy_seams) ==
    PasteFaces(bm, src_faces, dest_faces, strategy, flip, rotate, copy_seams, 0)

----------------------------------------------------------------------------
(* The parts of the state a run does not use stay as constructed.          *)

NoCall == [op |-> "none"]

RegIdle ==
    /\ bl_class_list = <<>>
    /\ prop_class_list = <<>>
    /\ regcall = [op |-> "none"]

RecIdle ==
    /\ rec = None
    /\ rec0 = None
    /\ applied = <<>>

----------------------------------------------------------------------------
(* MUV_OT_FlipRotateUV.execute                                             *)

Report(level, msg, arg) == [level |-> level, msg |-> msg, arg |-> arg]

\* one pass of the loop "for obj in objs" on the mesh of object k: what the
\* pass leaves of the mesh, how it ends and what it reports
ExecuteObject(bm, k, flip, rotate, seams) ==
    IF _get_uv_layer(bm) = None
    THEN [bm |-> bm, end |-> "return", result |-> "CANCELLED", count |-> 0,
          rets |-> <<>>,
          reports |-> <<Report("WARNING", "must have more than one UV map", k)>>]
    ELSE LET Pasted(r, n) ==
               IF r.raised
               THEN [bm |-> r.bm, end |-> "return", result |-> "EXCEPTION",
                     count |-> 0, rets |-> <<>>, reports |-> <<>>]
               ELSE IF r.ret # 0
               THEN [bm |-> r.bm, end |-> "return", result |-> "CANCELLED",
                     count |-> 0, rets |-> <<r.ret>>,
                     reports |-> <<Report("WARNING", "faces are different size", k)>>]
               ELSE [bm |-> r.bm, end |-> "next", result |-> None,
                     count |-> n, rets |-> <<r.ret>>, reports |-> <<>>]
             Selected(src) ==
               IF src = None
               THEN [bm |-> bm, end |-> "continue", result |-> None, count |-> 0,
                     rets |-> <<>>, reports |-> <<>>]
               ELSE Pasted(_paste_uv(bm, src, src, "N_N", flip, rotate, seams),
                           Len(src))
         IN  Selected(_get_src_face_info(bm, TRUE))

\* the end of execute without the test for an empty selection
ExecuteEnd_AlwaysFinished(face_count) ==
    [result |-> "FINISHED",
     reports |-> <<Report("INFO", "face(s) are fliped/rotated", face_count)>>]

\* the end of execute, after the loop over the objects
ExecuteEnd(face_count) ==
    IF face_count = 0
    THEN [result |-> "CANCELLED",
          reports |-> <<Report("WARNING", "No faces are selected", 0)>>]
    ELSE [result |-> "FINISHED",
          reports |-> <<Report("INFO", "face(s) are fliped/rotated", face_count)>>]

RECURSIVE ExecuteLoop(_, _, _, _, _, _, _, _)
\* the loop "for obj in objs" from object k on, then the end of execute
ExecuteLoop(os, k, face_count, reports, rets, flip, rotate, seams) ==
    LET End(e) ==
          [objs |-> os, result |-> e.result, reports |-> reports \o e.reports,
           face_count |-> face_count, visited |-> k - 1, rets |-> rets]
        Then(one) ==
          IF one.end = "return"
          THEN [objs |-> [os EXCEPT ![k] = one.bm], result |-> one.result,
                reports |-> reports \o one.reports,
                face_count |-> face_count, visited |-> k,
                rets |-> rets \o one.rets]
          ELSE ExecuteLoop([os EXCEPT ![k] = one.bm], k + 1,
                           face_count + one.count, reports \o one.reports,
                           rets \o one.rets, flip, rotate, seams)
    IN  IF k > Len(os)
        THEN End(ExecuteEnd(face_count))
        ELSE Then(ExecuteObject(os[k], k, flip, rotate, seams))

OpSeams == {{}, {3}, {1, 4}}

\* the meshes an editable object may have when the operator is invoked
OpMeshes ==
    {MkMesh(ShapeTriQuad, sel, seams, TRUE) :
       sel \in SUBSET {1, 2}, seams \in OpSeams}
    \cup {MkMesh(ShapeTriQuad, {1}, {3}, FALSE)}

InitOp ==
    /\ \E n \in 1..MaxObjs : objs \in [1..n -> OpMeshes]
    /\ src_info = None
    /\ pre = objs
    /\ call = NoCall
    /\ RegIdle
    /\ RecIdle

\* one invocation of the operator with the properties flip, rotate and seams
execute(flip, rotate, seams) ==
    /\ call.op = "none"
    /\ LET Done(r) ==
             /\ objs' = r.objs
             /\ call' = [op |-> "execute", flip |-> flip, rotate |-> rotate,
                         seams |-> seams, result |-> r.result,
                         reports |-> r.reports, face_count |-> r.face_count,
                         visited |-> r.visited, rets |-> r.rets]
       IN  Done(ExecuteLoop(objs, 1, 0, <<Report("INFO", "Flip/Rotate UV", 0)>>,
                            <<>>, flip, rotate, seams))
    /\ pre' = objs
    /\ UNCHANGED <<src_info, bl_class_list, prop_class_list, regcall,
                   rec, rec0, applied>>

NextOp ==
    \E flip \in BOOLEAN, rotate \in 0..MaxRotate, seams \in BOOLEAN :
      execute(flip, rotate, seams)

SpecOp == InitOp /\ [][NextOp]_vars

----------------------------------------------------------------------------
(* Transfer runs: _get_src_face_info and _paste_uv on one mesh, with a     *)
(* source captured under one selection and a destination under another.   *)

PasteShapes == {ShapeTwoTris, ShapeTriQuad, ShapeChain}

InitPaste ==
    /\ \E shape \in PasteShapes :
         \E seams \in {s \in SUBSET EdgesOf(shape) : Cardinality(s) <= MaxSeams} :
           objs = <<MkMesh(shape, {}, seams, TRUE)>>
    /\ src_info = None
    /\ pre = objs
    /\ call = NoCall
    /\ RegIdle
    /\ RecIdle

\* the user changes the face selection (face.select is host state)
SelectFaces(sel) ==
    /\ call.op = "none"
    /\ sel # {f \in FaceIds(objs[1]) : objs[1].faces[f].select}
    /\ objs' = <<SetSelect(objs[1], sel)>>
    /\ pre' = objs'
    /\ UNCHANGED <<src_info, call, bl_class_list, prop_class_list, regcall,
                   rec, rec0, applied>>

\* the source collection is captured from the selected faces
CaptureSrc ==
    /\ call.op = "none"
    /\ _get_src_face_info(objs[1], TRUE) # None
    /\ src_info' = _get_src_face_info(objs[1], TRUE)
    /\ src_info' # src_info
    /\ UNCHANGED <<objs, pre, call, bl_class_list, prop_class_list, regcall,
                   rec, rec0, applied>>

\* _paste_uv from the captured source onto the selected faces
Paste(strategy, flip, rotate, copy_seams) ==
    /\ call.op = "none"
    /\ src_info # None
    /\ _get_src_face_info(objs[1], TRUE) # None
    /\ LET Done(dest_info, r) ==
             /\ objs' = <<r.bm>>
             /\ call' = [op |-> "paste", strategy |-> strategy, flip |-> flip,
                         rotate |-> rotate, copy_seams |-> copy_seams,
                         src |-> src_info, dest |-> dest_info,
                         ret |-> r.ret, raised |-> r.raised, done |-> r.done]
       IN  Done(_get_src_face_info(objs[1], TRUE),
                _paste_uv(objs[1], src_info, _get_src_face_info(objs[1], TRUE),
                        strategy, flip, rotate, copy_seams))
    /\ pre' = objs
    /\ UNCHANGED <<src_info, bl_class_list, prop_class_list, regcall,
                   rec, rec0, applied>>

NextPaste ==
    \/ \E sel \in SUBSET FaceIds(objs[1]) : SelectFaces(sel)
    \/ CaptureSrc
    \/ \E strategy \in {"N_N", "N_M"}, flip \in BOOLEAN,
          rotate \in 0..MaxRotate, copy_seams \in BOOLEAN :
         Paste(strategy, flip, rotate, copy_seams)

SpecPaste == InitPaste /\ [][NextPaste]_vars

----------------------------------------------------------------------------
(* Transform runs: the flip/rotate transform of _paste_uv applied to one   *)
(* face record, and again to its result.                                   *)

InitRot ==
    /\ \E n \in 1..MaxLoops : \E seams \in [1..n -> BOOLEAN] :
         rec0 = [index |-> 0, uvs |-> [i \in 1..n |-> i],
                 pin_uvs |-> [i \in 1..n |-> i = 1], seams |-> seams]
    /\ rec = rec0
    /\ applied = <<>>
    /\ objs = <<>>
    /\ src_info = None
    /\ pre = <<>>
    /\ call = NoCall
    /\ RegIdle

\* the working copies of rec are flipped and rotated and become the record
Transform(flip, rotate) ==
    /\ Len(applied) < MaxTransforms
    /\ LET Done(fr) ==
             /\ ~fr.raised
             /\ rec' = [rec EXCEPT !.uvs = fr.uvs, !.pin_uvs = fr.pin_uvs,
                                   !.seams = fr.seams]
       IN  Done(FlipRotate(rec, flip, rotate))
    /\ applied' = Append(applied, <<flip, rotate>>)
    /\ UNCHANGED <<objs, src_info, pre, call, bl_class_list, prop_class_list,
                   regcall, rec0>>

NextRot ==
    \E flip \in BOOLEAN, rotate \in 0..MaxRotate : Transform(flip, rotate)

SpecRot == InitRot /\ [][NextRot]_vars

----------------------------------------------------------------------------
(* BlClassRegistry and PropertyClassRegistry                               *)

BlIdnames == {"uv.muv_flip_rotate_uv", "uv.muv_other"}
PropIdnames == {"flip_rotate_uv", "other"}

\* BlClassRegistry.add_class comparing the identifier only, not the legacy flag
BlClassRegistry_add_class_IdOnly(class_list, bl_idname, op_class, legacy) ==
    IF \E i \in 1..Len(class_list) : class_list[i].bl_idname = bl_idname
    THEN [class_list |-> class_list, raised |-> TRUE]
    ELSE [class_list |-> Append(class_list,
                                [bl_idname |-> bl_idname, class |-> op_class,
                                 legacy |-> legacy]),
          raised |-> FALSE]

\* BlClassRegistry.add_class on the list class_list: the list it leaves and
\* whether RuntimeError was raised
BlClassRegistry_add_class(class_list, bl_idname, op_class, legacy) ==
    IF \E i \in 1..Len(class_list) :
         class_list[i].bl_idname = bl_idname /\ class_list[i].legacy = legacy
    THEN [class_list |-> class_list, raised |-> TRUE]
    ELSE [class_list |-> Append(class_list,
                                [bl_idname |-> bl_idname, class |-> op_class,
                                 legacy |-> legacy]),
          raised |-> FALSE]

\* PropertyClassRegistry.add_class
PropertyClassRegistry_add_class(class_list, idname, prop_class, legacy) ==
    IF \E i \in 1..Len(class_list) :
         class_list[i].idname = idname /\ class_list[i].legacy = legacy
    THEN [class_list |-> class_list, raised |-> TRUE]
    ELSE [class_list |-> Append(class_list,
                                [idname |-> idname, class |-> prop_class,
                                 legacy |-> legacy]),
          raised |-> FALSE]

InitReg ==
    /\ RegIdle
    /\ RecIdle
    /\ objs = <<>>
    /\ src_info = None
    /\ pre = <<>>
    /\ call = NoCall

BlAdd(bl_idname, legacy) ==
    /\ LET Done(r) ==
             /\ bl_class_list' = r.class_list
             /\ regcall' = [op |-> "add_class", registry |-> "Bl",
                            idname |-> bl_idname, legacy |-> legacy,
                            class |-> "MUV_OT_FlipRotateUV",
                            raised |-> r.raised, before |-> bl_class_list]
       IN  Done(BlClassRegistry_add_class(bl_class_list, bl_idname, "MUV_OT_FlipRotateUV", legacy))
    /\ UNCHANGED <<objs, src_info, pre, call, prop_class_list, rec, rec0, applied>>

PropAdd(idname, legacy) ==
    /\ LET Done(r) ==
             /\ prop_class_list' = r.class_list
             /\ regcall' = [op |-> "add_class", registry |-> "Prop",
                            idname |-> idname, legacy |-> legacy,
                            class |-> "_Properties",
                            raised |-> r.raised, before |-> prop_class_list]
       IN  Done(PropertyClassRegistry_add_class(prop_class_list, idname, "_Properties", legacy))
    /\ UNCHANGED <<objs, src_info, pre, call, bl_class_list, rec, rec0, applied>>

BlClassRegistry_cleanup ==
    /\ bl_class_list' = <<>>
    /\ regcall' = [op |-> "cleanup", registry |-> "Bl", idname |-> None,
                   legacy |-> FALSE, class |-> None, raised |-> FALSE,
                   before |-> bl_class_list]
    /\ UNCHANGED <<objs, src_info, pre, call, prop_class_list, rec, rec0, applied>>

PropertyClassRegistry_cleanup ==
    /\ prop_class_list' = <<>>
    /\ regcall' = [op |-> "cleanup", registry |-> "Prop", idname |-> None,
                   legacy |-> FALSE, class |-> None, raised |-> FALSE,
                   before |-> prop_class_list]
    /\ UNCHANGED <<objs, src_info, pre, call, bl_class_list, rec, rec0, applied>>

NextReg ==
    \/ \E bl_idname \in BlIdnames, legacy \in BOOLEAN : BlAdd(bl_idname, legacy)
    \/ \E idname \in PropIdnames, legacy \in BOOLEAN : PropAdd(idname, legacy)
    \/ BlClassRegistry_cleanup
    \/ PropertyClassRegistry_cleanup

SpecReg == InitReg /\ [][NextReg]_vars

----------------------------------------------------------------------------
(* Properties of the transfer runs                                         *)

\* what the last _paste_uv call was given and the mesh it worked on
LastPaste == call.op = "paste"
MeshNow == objs[1]
MeshPre == pre[1]

\* destination positions (0-based) the loop reached: those written, and the
\* one at which the function was left early
Written == 0..(call.done - 1)
Reached == {idx \in 0..(Len(call.dest) - 1) : idx <= call.done}

\* the pairing rule of the strategies, 0-based
PairIndex(idx) ==
    IF call.strategy = "N_M" THEN idx % Len(call.src) ELSE idx
HasPair(idx) == PairIndex(idx) < Len(call.src)
PairedSrc(idx) == call.src[PairIndex(idx) + 1]
DestFace(idx) == call.dest[idx + 1].index + 1
DestLoops(idx) == MeshNow.faces[DestFace(idx)].loops
EqualCount(idx) ==
    HasPair(idx) /\ Len(PairedSrc(idx).uvs) = Len(call.dest[idx + 1].uvs)

\* the source position (0-based) whose value lands on written position i of a
\* face of n loops: reverse iff flip, then the trailing r elements to the front
SrcPos(i, r, n, flip) ==
    IF flip THEN n - 1 - ((i - r) % n) ELSE (i - r) % n

\* written position i of destination idx holds the uv and the pin of the one
\* source position SrcPos
HoldsTransformed(idx) ==
    LET n == Len(call.dest[idx + 1].uvs)
    IN  \A i \in 0..(n - 1) :
          LET p == SrcPos(i, call.rotate, n, call.flip) + 1
          IN  /\ DestLoops(idx)[i + 1].uv = PairedSrc(idx).uvs[p]
              /\ DestLoops(idx)[i + 1].pin_uv = PairedSrc(idx).pin_uvs[p]

\* C1: for every paired source/destination face of equal loop count n >= 1 and
\* every rotate 0 <= r <= n, _paste_uv writes on the destination loops, in loop
\* order, the source record reversed (iff flip) and then with its trailing r
\* elements moved to the front; uv and pin come from the same source position.
\* A pair of equal count that the loop reaches is written.
C1_PasteWritesFlipThenRotate ==
    LastPaste =>
      \A idx \in Reached :
        (EqualCount(idx) /\ Len(call.dest[idx + 1].uvs) >= 1
           /\ call.rotate <= Len(call.dest[idx + 1].uvs))
          => (idx \in Written /\ HoldsTransformed(idx))

\* a flipped, properly rotated paste from another face's record
C1_Witness ==
    /\ LastPaste
    /\ \E idx \in Written :
         /\ call.flip
         /\ call.rotate >= 1
         /\ call.rotate < Len(call.dest[idx + 1].uvs)
         /\ PairedSrc(idx).index # call.dest[idx + 1].index
         /\ HoldsTransformed(idx)

\* C2 as claimed: a rotate count above the loop count of a reached face makes
\* the engine fail on an exhausted sequence instead of writing that face.
C2_RotateBeyondLoopCountRaises ==
    LastPaste =>
      \A idx \in Reached :
        (EqualCount(idx) /\ Len(call.dest[idx + 1].uvs) >= 1
           /\ call.rotate > Len(call.dest[idx + 1].uvs))
          => (call.raised /\ idx \notin Written)

\* C2 as amended: each pass of the rotate loop pops one element and inserts
\* it again, so the lists never run empty: a rotate count above the loop count
\* n >= 1 raises nothing and writes the rotation by rotate mod n.
C2_RotateBeyondLoopCountWraps ==
    LastPaste =>
      \A idx \in Reached :
        (EqualCount(idx) /\ Len(call.dest[idx + 1].uvs) >= 1
           /\ call.rotate > Len(call.dest[idx + 1].uvs))
          => (idx \in Written /\ HoldsTransformed(idx))

\* a face written under a rotate count above its loop count, and not a multiple
C2_Witness ==
    /\ LastPaste
    /\ ~call.raised
    /\ \E idx \in Written :
         /\ call.rotate > Len(call.dest[idx + 1].uvs)
         /\ call.rotate % Len(call.dest[idx + 1].uvs) # 0
         /\ MeshNow.faces[DestFace(idx)] # MeshPre.faces[DestFace(idx)]

\* the uv and pin of every loop of face f are those before the call
FaceKept(f) == MeshNow.faces[f] = MeshPre.faces[f]
\* the seam flag of every edge of face f is the one before the call
SeamsKept(f) ==
    \A j \in 1..Len(MeshNow.faces[f].loops) :
      MeshNow.seam[MeshNow.faces[f].loops[j].edge]
        = MeshPre.seam[MeshPre.faces[f].loops[j].edge]
EdgesOfFace(f) ==
    {MeshPre.faces[f].loops[j].edge : j \in 1..Len(MeshPre.faces[f].loops)}
\* the edges of the destination faces written before destination idx
EdgesWrittenBefore(idx) ==
    UNION {EdgesOfFace(DestFace(k)) : k \in 0..(idx - 1)}

Mismatched == LastPaste /\ call.ret = -1

\* C4 as claimed: on a size mismatch the function returns -1 at once: the
\* mismatched destination face keeps its UVs, pins and seams, no later face is
\* written, and the faces written before keep what was written.
C4_MismatchLeavesFaceUntouched ==
    Mismatched =>
      /\ ~EqualCount(call.done)
      /\ FaceKept(DestFace(call.done))
      /\ SeamsKept(DestFace(call.done))
      /\ \A idx \in (call.done + 1)..(Len(call.dest) - 1) : FaceKept(DestFace(idx))
      /\ \A idx \in Written : HoldsTransformed(idx)

\* C4 as amended: the seam flags belong to the edges, so an edge the
\* mismatched face shares with a face written before it holds what that face
\* wrote when seams are copied; the other seams of the mismatched face, and
\* its UVs and pins, are unchanged.
C4_MismatchLeavesOwnDataUntouched ==
    Mismatched =>
      /\ ~EqualCount(call.done)
      /\ FaceKept(DestFace(call.done))
      /\ \A j \in 1..Len(MeshNow.faces[DestFace(call.done)].loops) :
           LET e == MeshNow.faces[DestFace(call.done)].loops[j].edge
           IN  (~call.copy_seams \/ e \notin EdgesWrittenBefore(call.done))
                 => MeshNow.seam[e] = MeshPre.seam[e]
      /\ \A idx \in (call.done + 1)..(Len(call.dest) - 1) : FaceKept(DestFace(idx))
      /\ \A idx \in Written : HoldsTransformed(idx)

\* a mismatch after a face was written, on a face sharing an edge with it
C4_Witness ==
    /\ Mismatched
    /\ call.done >= 1
    /\ call.copy_seams
    /\ EdgesOfFace(DestFace(call.done)) \cap EdgesWrittenBefore(call.done) # {}
    /\ ~FaceKept(DestFace(call.done - 1))
    /\ FaceKept(DestFace(call.done))

Succeeded == LastPaste /\ call.ret = 0 /\ ~call.raised

\* the seam value the transform puts on position i of destination idx
SeamFor(idx, i) ==
    LET n == Len(call.dest[idx + 1].uvs)
    IN  PairedSrc(idx).seams[SrcPos(i, call.rotate, n, call.flip) + 1]
EdgeAt(idx, i) == MeshPre.faces[DestFace(idx)].loops[i + 1].edge
\* the destination loops, as <<idx, i>>, in the order the paste loop visits them
DestPlaces ==
    UNION {{<<idx, i>> : i \in 0..(Len(call.dest[idx + 1].uvs) - 1)} :
             idx \in 0..(Len(call.dest) - 1)}
LaterPlace(p, q) == q[1] > p[1] \/ (q[1] = p[1] /\ q[2] > p[2])

\* C5 as claimed: after a successful transfer, without copy_seams every edge
\* keeps its seam flag; with copy_seams the seam flags of each destination
\* face's edges, in loop order, are the transformed seams of its source record.
C5_SeamsFollowEveryFace ==
    Succeeded =>
      /\ ~call.copy_seams => MeshNow.seam = MeshPre.seam
      /\ call.copy_seams =>
           \A p \in DestPlaces : MeshNow.seam[EdgeAt(p[1], p[2])] = SeamFor(p[1], p[2])

\* C5 as amended: an edge shared by several destination loops holds the value
\* of the last of them in processing order; an edge of no destination face
\* keeps its flag.
C5_SeamsFollowLastWriter ==
    Succeeded =>
      /\ ~call.copy_seams => MeshNow.seam = MeshPre.seam
      /\ call.copy_seams =>
           /\ \A p \in DestPlaces :
                (\A q \in DestPlaces :
                   LaterPlace(p, q) => EdgeAt(q[1], q[2]) # EdgeAt(p[1], p[2]))
                  => MeshNow.seam[EdgeAt(p[1], p[2])] = SeamFor(p[1], p[2])
           /\ \A e \in DOMAIN MeshNow.seam :
                (\A p \in DestPlaces : EdgeAt(p[1], p[2]) # e)
                  => MeshNow.seam[e] = MeshPre.seam[e]

\* seams copied onto two destination faces that share an edge, and changed
C5_Witness ==
    /\ Succeeded
    /\ call.copy_seams
    /\ Len(call.dest) >= 2
    /\ MeshNow.seam # MeshPre.seam
    /\ \E p \in DestPlaces, q \in DestPlaces :
         /\ LaterPlace(p, q)
         /\ EdgeAt(q[1], q[2]) = EdgeAt(p[1], p[2])
         /\ MeshNow.seam[EdgeAt(q[1], q[2])] = SeamFor(q[1], q[2])

----------------------------------------------------------------------------
(* Properties of the operator                                              *)

LastExecute == call.op = "execute"
ObjIds == 1..Len(pre)

SelectedFaces(bm) == {f \in FaceIds(bm) : bm.faces[f].select}
LoopEdges(bm, f) == {bm.faces[f].loops[j].edge : j \in 1..Len(bm.faces[f].loops)}
SelectedEdges(bm) == UNION {LoopEdges(bm, f) : f \in SelectedFaces(bm)}

\* face f of object k has no record in the collection taken from the selection
NoRecord(k, f) ==
    LET info == _get_src_face_info(pre[k], TRUE)
    IN  info # None => \A i \in 1..Len(info) : info[i].index # f - 1

\* C6 as claimed: with only_selected a face that is not selected has no record
\* in the collection, and the operation leaves it untouched: the UV and pin of
\* each of its loops and the seam flag of each of its edges.
C6_UnselectedFaceUntouched ==
    LastExecute =>
      \A k \in ObjIds : \A f \in FaceIds(pre[k]) \ SelectedFaces(pre[k]) :
        /\ NoRecord(k, f)
        /\ objs[k].faces[f] = pre[k].faces[f]
        /\ \A e \in LoopEdges(pre[k], f) : objs[k].seam[e] = pre[k].seam[e]

\* C6 as amended: the seam flag is the edge's, so an edge the unselected face
\* shares with a selected face takes what that face's transfer writes when
\* seams are copied; its UVs, its pins and its other seams are untouched.
C6_UnselectedFaceOwnDataUntouched ==
    LastExecute =>
      \A k \in ObjIds : \A f \in FaceIds(pre[k]) \ SelectedFaces(pre[k]) :
        /\ NoRecord(k, f)
        /\ objs[k].faces[f] = pre[k].faces[f]
        /\ \A e \in LoopEdges(pre[k], f) :
             (~call.seams \/ e \notin SelectedEdges(pre[k]))
               => objs[k].seam[e] = pre[k].seam[e]

\* an object with a selected face changed and an unselected one sharing an edge
C6_Witness ==
    /\ LastExecute
    /\ call.seams
    /\ \E k \in ObjIds :
         \E f \in FaceIds(pre[k]) \ SelectedFaces(pre[k]) :
           \E g \in SelectedFaces(pre[k]) :
             /\ LoopEdges(pre[k], f) \cap LoopEdges(pre[k], g) # {}
             /\ objs[k].faces[g] # pre[k].faces[g]
             /\ objs[k].faces[f] = pre[k].faces[f]

\* what the transfer makes of an object's mesh when the object is processed
Processed(bm) ==
    IF _get_src_face_info(bm, TRUE) = None THEN bm
    ELSE _paste_uv(bm, _get_src_face_info(bm, TRUE), _get_src_face_info(bm, TRUE), "N_N",
                 call.flip, call.rotate, call.seams).bm

\* C7: an object without UV layer is reported and skipped, and that is all:
\* the objects after it are still processed and those before it keep their
\* changes.
C7_NoUVLayerIsPerObject ==
    LastExecute =>
      \A k \in ObjIds :
        (~pre[k].has_uv /\ \A j \in 1..(k - 1) : pre[j].has_uv) =>
          /\ \E i \in 1..Len(call.reports) :
               call.reports[i] = Report("WARNING", "must have more than one UV map", k)
          /\ objs[k] = pre[k]
          /\ \A j \in ObjIds : pre[j].has_uv => objs[j] = Processed(pre[j])

RECURSIVE SelectedTotal(_)
\* the number of selected faces of the first k objects
SelectedTotal(k) ==
    IF k = 0 THEN 0
    ELSE SelectedTotal(k - 1) + Cardinality(SelectedFaces(pre[k]))

NoObjectError == \A k \in ObjIds : pre[k].has_uv

\* C8: without a per-object error the operation ends in one of two ways.  With
\* no face selected in any object it reports "No faces are selected" once and
\* returns CANCELLED after visiting every object; otherwise it returns
\* FINISHED and reports the number of selected faces of all objects.  An
\* object with no selected face is not written.
C8_CountOrEmptySelection ==
    (LastExecute /\ NoObjectError) =>
      /\ call.visited = Len(pre)
      /\ call.face_count = SelectedTotal(Len(pre))
      /\ IF SelectedTotal(Len(pre)) = 0
         THEN /\ call.result = "CANCELLED"
              /\ call.reports = <<Report("INFO", "Flip/Rotate UV", 0),
                                  Report("WARNING", "No faces are selected", 0)>>
         ELSE /\ call.result = "FINISHED"
              /\ call.reports = <<Report("INFO", "Flip/Rotate UV", 0),
                                  Report("INFO", "face(s) are fliped/rotated",
                                         SelectedTotal(Len(pre)))>>
      /\ \A k \in ObjIds : SelectedFaces(pre[k]) = {} => objs[k] = pre[k]

\* two objects, one with an empty selection, and faces counted over both
C8_Witness ==
    /\ LastExecute
    /\ NoObjectError
    /\ Len(pre) >= 2
    /\ call.result = "FINISHED"
    /\ call.face_count >= 2
    /\ \E k \in ObjIds : SelectedFaces(pre[k]) = {}
    /\ objs # pre

\* an invocation with no face selected in any object
C8_WitnessEmpty ==
    /\ LastExecute
    /\ NoObjectError
    /\ call.result = "CANCELLED"

\* C10: the operator pairs every destination face with its own record, so
\* _paste_uv never returns -1 and "faces are different size" is never
\* reported.
C10_NoSizeMismatchInOperator ==
    LastExecute =>
      /\ \A i \in 1..Len(call.rets) : call.rets[i] = 0
      /\ \A i \in 1..Len(call.reports) :
           call.reports[i].msg # "faces are different size"
      /\ call.result \in {"FINISHED", "CANCELLED"}

\* an object whose selected faces have different loop counts was transferred
C10_Witness ==
    /\ LastExecute
    /\ Len(call.rets) >= 1
    /\ \E k \in ObjIds :
         /\ \A j \in 1..k : pre[j].has_uv
         /\ \E f \in SelectedFaces(pre[k]), g \in SelectedFaces(pre[k]) :
              Len(pre[k].faces[f].loops) # Len(pre[k].faces[g].loops)
         /\ objs[k] # pre[k]

----------------------------------------------------------------------------
(* Properties of the transform runs                                        *)

Loops == Len(rec0.uvs)
Flipped(t) == applied[t][1]
Rotated(t) == applied[t][2]

\* C3: on a record of n loops, rotate = k and then rotate = n - k (0 <= k <= n,
\* no flip) give back the original uvs, pins and seams; rotate = 0 leaves them
\* unchanged and so does rotate = n.
C3_RotateThenComplementIsIdentity ==
    /\ (Len(applied) = 2 /\ ~Flipped(1) /\ ~Flipped(2) /\ Rotated(1) <= Loops
          /\ Rotated(2) = Loops - Rotated(1))
         => rec = rec0
    /\ (Len(applied) = 1 /\ ~Flipped(1) /\ Rotated(1) \in {0, Loops})
         => rec = rec0

\* a proper rotation of a record with a seam, undone by its complement
C3_Witness ==
    /\ Len(applied) = 2
    /\ ~Flipped(1) /\ ~Flipped(2)
    /\ Loops >= 3
    /\ Rotated(1) = 1
    /\ Rotated(2) = Loops - 1
    /\ rec0.seams[1] /\ ~rec0.seams[2]
    /\ rec = rec0

----------------------------------------------------------------------------
(* Properties of the registries                                            *)

ClassList(registry) ==
    IF registry = "Bl" THEN bl_class_list ELSE prop_class_list
IdOf(registry, entry) ==
    IF registry = "Bl" THEN entry.bl_idname ELSE entry.idname
Entry(registry, idname, class, legacy) ==
    IF registry = "Bl"
    THEN [bl_idname |-> idname, class |-> class, legacy |-> legacy]
    ELSE [idname |-> idname, class |-> class, legacy |-> legacy]
Present(registry, list, idname, legacy) ==
    \E i \in 1..Len(list) :
      IdOf(registry, list[i]) = idname /\ list[i].legacy = legacy

\* C9: in both registries class_list never holds two entries with the same
\* identifier and the same legacy flag.  An add_class of a pair already
\* present raises and leaves the list unchanged; any other add_class, also
\* one of a present identifier under the other legacy flag, is accepted and
\* appended at the end; cleanup empties the list, so that an identifier
\* rejected before is accepted again.
C9_RegistryHoldsNoDuplicate ==
    /\ \A registry \in {"Bl", "Prop"} :
         \A i \in 1..Len(ClassList(registry)), j \in 1..Len(ClassList(registry)) :
           (IdOf(registry, ClassList(registry)[i]) = IdOf(registry, ClassList(registry)[j])
              /\ ClassList(registry)[i].legacy = ClassList(registry)[j].legacy)
             => i = j
    /\ regcall.op = "add_class" =>
         IF Present(regcall.registry, regcall.before, regcall.idname, regcall.legacy)
         THEN regcall.raised /\ ClassList(regcall.registry) = regcall.before
         ELSE /\ ~regcall.raised
              /\ ClassList(regcall.registry)
                   = Append(regcall.before,
                            Entry(regcall.registry, regcall.idname,
                                  regcall.class, regcall.legacy))
    /\ regcall.op = "cleanup" => ClassList(regcall.registry) = <<>>

\* an identifier registered under both legacy flags, the second at the end
C9_Witness ==
    /\ regcall.op = "add_class"
    /\ ~regcall.raised
    /\ Present(regcall.registry, regcall.before, regcall.idname, ~regcall.legacy)
    /\ Len(ClassList(regcall.registry)) >= 3

====
